---- MODULE Spec2Model ----
(***************************************************************************)
(* Birthday bot: the delivery ledger (delivery_tracking.json), the pending *)
(* birthday resolver and the per-tick delivery loop of src/birthday_bot.py *)
(* as a state machine.                                                     *)
(*                                                                         *)
(* Time has the granularity of one day: datetime.now() is the variable     *)
(* `now`, and the calendar advances only while the process is down or idle *)
(* in the scheduler (a tick lasts seconds to minutes).                     *)
(*                                                                         *)
(* A Python dict is a function with a finite domain; d.get(k, default) is  *)
(* Get(d, k, default).  None, 0 and "" are the falsy chat ids / birthdays: *)
(* a chat id is a natural number with 0 for None, a birthday "DD.MM" is    *)
(* the tuple of its four digits and <<>> when the field is missing.        *)
(***************************************************************************)
EXTENDS Integers, Sequences, FiniteSets, TLC

VARIABLES
    now,          \* datetime.now(), a date [y, m, d]
    elapsed,      \* days the calendar has advanced (bounds the run)
    sched,        \* the daily job of `schedule` has run (or is past) today
    deployment,   \* users_config.json and the CHAT_ID of .env
    file,         \* content of delivery_tracking.json
    pc,           \* position of the process
    pending,      \* pending_users of the running tick
    pendingUid,   \* ghost: index in users of each pending entry
    idx,          \* position of the for loop of send_birthday_messages
    image,        \* image_path of the recipient being processed exists
    text,         \* how birthday_message was obtained
    outcomes,     \* ghost: how each processed recipient of the tick ended
    calls,        \* ghost: transport calls of the last dispatch
    callOk,       \* ghost: whether each of these calls succeeded
    raised,       \* ghost: the last tick ended in the except of run_birthday_check
    delivered,    \* ghost: successful dispatches per <<uid, occurrence date>>
    failed,       \* ghost: <<uid, occurrence date>> whose dispatch raised
    faults,       \* faults so far (bounds the run)
    life,         \* the process: "new", "ticked" (check at start done), "scheduled"
    resolvedOn,   \* ghost: the day of the last get_pending_birthdays of the process
    imageOutcome, \* ghost: how generate_birthday_image ended for the recipient
    chat_id,      \* the chat _send_birthday_message_to_user resolved; 0 is None
    kpc,          \* position inside KandinskyClient.generate_birthday_image
    _api_available, \* KandinskyClient._api_available: "None", "True", "False"
    retries,      \* retries of the polling loop
    clock,        \* time.time() - start_time, in seconds
    polls,        \* ghost: _check_generation_status calls of the job
    answer,       \* ghost: the HTTP answer to the last status call
    submits,      \* ghost: _generate_image_request calls of the job
    payload,      \* files[0] of the DONE answer, "none" before
    kresult,      \* ghost: how the last generate_birthday_image ended
    jobs          \* generate_birthday_image calls so far (bounds the run)

\* the state of the KandinskyClient
kandinsky == <<kpc, _api_available, retries, clock, polls, answer, submits,
               payload, kresult, jobs>>

\* the state of BirthdayBot and its files
bot == <<now, elapsed, sched, deployment, file, pc, pending, pendingUid, idx,
         image, text, outcomes, calls, callOk, raised, delivered, failed, faults,
         life, resolvedOn, imageOutcome,
                   chat_id>>

vars == <<bot, kandinsky>>

(***************************************************************************)
(* Bounds of the model and constants of the program                        *)
(***************************************************************************)
MaxDays == 4

MaxFaults == 2

RETRY_DAYS == 2

DEFAULT_USER_NAME == "Dorogoi drug"

DEFAULT_UNKNOWN_NAME == "Neizvestnyi"

(***************************************************************************)
(* Python dict helpers                                                     *)
(***************************************************************************)
EmptyDict == [k \in {} |-> 0]

Get(d, k, default) == IF k \in DOMAIN d THEN d[k] ELSE default

Put(d, k, v) == (k :> v) @@ d

(***************************************************************************)
(* Calendar: datetime, timedelta(days=n), strftime                         *)
(***************************************************************************)
IsLeap(y) == (y % 4 = 0 /\ y % 100 # 0) \/ y % 400 = 0

DaysInMonth(y, m) ==
    IF m = 2 THEN (IF IsLeap(y) THEN 29 ELSE 28)
    ELSE IF m \in {4, 6, 9, 11} THEN 30 ELSE 31

NextDay(t) ==
    IF t.d < DaysInMonth(t.y, t.m) THEN [t EXCEPT !.d = t.d + 1]
    ELSE IF t.m < 12 THEN [y |-> t.y, m |-> t.m + 1, d |-> 1]
    ELSE [y |-> t.y + 1, m |-> 1, d |-> 1]

PrevDay(t) ==
    IF t.d > 1 THEN [t EXCEPT !.d = t.d - 1]
    ELSE IF t.m > 1 THEN [y |-> t.y, m |-> t.m - 1, d |-> DaysInMonth(t.y, t.m - 1)]
    ELSE [y |-> t.y - 1, m |-> 12, d |-> 31]

RECURSIVE MinusDays(_, _)
MinusDays(t, n) == IF n = 0 THEN t ELSE MinusDays(PrevDay(t), n - 1)

\* strftime("%d.%m"): two zero-padded digits of the day, two of the month
DATE_FORMAT(t) == <<t.d \div 10, t.d % 10, t.m \div 10, t.m % 10>>

\* strftime("%Y-%m-%d")
SentDateFormat(t) == <<t.y, t.m, t.d>>

(***************************************************************************)
(* Ledger Store                                                            *)
(*   file.kind = "absent"       the file does not exist                    *)
(*             = "unparseable"  json.loads raises JSONDecodeError          *)
(*             = "json"         json.loads returns file.data; file.isObject*)
(*                              tells a JSON object from any other value   *)
(***************************************************************************)
Absent == [kind |-> "absent"]

Unparseable == [kind |-> "unparseable"]

JsonFile(data) == [kind |-> "json", isObject |-> TRUE, data |-> data]

NonObjectFile == [kind |-> "json", isObject |-> FALSE, data |-> EmptyDict]

_create_empty_tracking_data(today) == [year |-> today.y, sent_messages |-> EmptyDict]

load_delivery_tracking_wrongyear(f, today) ==
    IF f.kind = "json" /\ f.isObject THEN f.data ELSE _create_empty_tracking_data(today)

load_delivery_tracking(f, today) ==
    IF f.kind = "absent" THEN _create_empty_tracking_data(today)
    ELSE IF f.kind = "unparseable" THEN _create_empty_tracking_data(today)
    ELSE IF ~f.isObject THEN _create_empty_tracking_data(today)  \* .get raises AttributeError
    ELSE IF Get(f.data, "year", 0) # today.y THEN _create_empty_tracking_data(today)
    ELSE f.data

\* tracking_data["sent_messages"] raises KeyError
TrackingRaises(f, today) == "sent_messages" \notin DOMAIN load_delivery_tracking(f, today)

(***************************************************************************)
(* JSON text of the tracking data.  An object is written as the sequence   *)
(* of its members <<key, value text>>; numbers, booleans and strings are   *)
(* written as themselves.  Reading an object keeps, for each key, the      *)
(* value of its last member.                                               *)
(***************************************************************************)
RECURSIVE Order(_)
\* the keys of a dict in the order they are written
Order(S) ==
    IF S = {} THEN <<>>
    ELSE LET x == CHOOSE x \in S : TRUE IN <<x>> \o Order(S \ {x})

\* the keys of the record of mark_message_sent, in the order of lines 313-321
RecordFields == <<"birthday", "sent", "sent_date", "is_belated", "attempts">>

RECURSIVE DumpRecordFrom(_, _)
DumpRecordFrom(rec, i) ==
    IF i > Len(RecordFields) THEN <<>>
    ELSE IF RecordFields[i] \in DOMAIN rec
         THEN << <<RecordFields[i], rec[RecordFields[i]]>> >>
                  \o DumpRecordFrom(rec, i + 1)
         ELSE DumpRecordFrom(rec, i + 1)

DumpRecord(rec) == DumpRecordFrom(rec, 1)

RECURSIVE DumpInnerFrom(_, _)
DumpInnerFrom(inner, keys) ==
    IF keys = <<>> THEN <<>>
    ELSE << <<Head(keys), DumpRecord(inner[Head(keys)])>> >>
             \o DumpInnerFrom(inner, Tail(keys))

DumpInner(inner) == DumpInnerFrom(inner, Order(DOMAIN inner))

RECURSIVE DumpOuterFrom(_, _)
DumpOuterFrom(sm, keys) ==
    IF keys = <<>> THEN <<>>
    ELSE << <<Head(keys), DumpInner(sm[Head(keys)])>> >>
             \o DumpOuterFrom(sm, Tail(keys))

DumpOuter(sm) == DumpOuterFrom(sm, Order(DOMAIN sm))

\* the text without the year member
json_dumps_noyear(data) == << <<"sent_messages", DumpOuter(data.sent_messages)>> >>

\* json.dumps(data, ensure_ascii=False, indent=2) of {"year", "sent_messages"}
json_dumps(data) ==
    << <<"year", data.year>>, <<"sent_messages", DumpOuter(data.sent_messages)>> >>

\* the members but the last
Front(members) == SubSeq(members, 1, Len(members) - 1)

\* the last member <<key, value text>>
Last(members) == members[Len(members)]

RECURSIVE LoadRecord(_)
\* an object of numbers, booleans and strings: a later member replaces an
\* earlier one with the same key
LoadRecord(members) ==
    IF members = <<>> THEN EmptyDict
    ELSE Put(LoadRecord(Front(members)), Last(members)[1], Last(members)[2])

RECURSIVE LoadInner(_)
LoadInner(members) ==
    IF members = <<>> THEN EmptyDict
    ELSE Put(LoadInner(Front(members)), Last(members)[1],
             LoadRecord(Last(members)[2]))

RECURSIVE LoadOuter(_)
LoadOuter(members) ==
    IF members = <<>> THEN EmptyDict
    ELSE Put(LoadOuter(Front(members)), Last(members)[1],
             LoadInner(Last(members)[2]))

RECURSIVE json_loads(_)
\* json.loads of a text json_dumps wrote
json_loads(members) ==
    IF members = <<>> THEN EmptyDict
    ELSE Put(json_loads(Front(members)), Last(members)[1],
             IF Last(members)[1] = "sent_messages"
             THEN LoadOuter(Last(members)[2])
             ELSE Last(members)[2])

\* a file holding the text: what json.loads(read_text()) gives is its data
TextFile(s) == JsonFile(json_loads(s))

\* json.dumps then write_text, when the write completes
save_delivery_tracking(data) == TextFile(json_dumps(data))

NewRecord_reset(inner, user_name, birthday, is_belated, today) ==
    [birthday |-> birthday, sent |-> TRUE, sent_date |-> SentDateFormat(today),
     is_belated |-> is_belated, attempts |-> 1]

\* the record says not belated whatever the flag
NewRecord_notbelated(inner, user_name, birthday, is_belated, today) ==
    [birthday |-> birthday, sent |-> TRUE, sent_date |-> SentDateFormat(today),
     is_belated |-> FALSE,
     attempts |-> Get(Get(inner, user_name, EmptyDict), "attempts", 0) + 1]

NewRecord(inner, user_name, birthday, is_belated, today) ==
    [birthday |-> birthday, sent |-> TRUE, sent_date |-> SentDateFormat(today),
     is_belated |-> is_belated,
     attempts |-> Get(Get(inner, user_name, EmptyDict), "attempts", 0) + 1]

MarkedData_fresh(f, today, user_name, birthday, is_belated) ==
    LET rec == NewRecord(EmptyDict, user_name, birthday, is_belated, today)
    IN  Put(_create_empty_tracking_data(today), "sent_messages",
            Put(EmptyDict, birthday, Put(EmptyDict, user_name, rec)))

\* the dict of the birthday is replaced by one holding only the new record
MarkedData_replaceinner(f, today, user_name, birthday, is_belated) ==
    LET tracking_data == load_delivery_tracking(f, today)
        sm    == tracking_data.sent_messages
        inner == Get(sm, birthday, EmptyDict)
        rec   == NewRecord(inner, user_name, birthday, is_belated, today)
    IN  Put(tracking_data, "sent_messages",
            Put(sm, birthday, Put(EmptyDict, user_name, rec)))

\* the tracking data mark_message_sent hands to save_delivery_tracking
MarkedData(f, today, user_name, birthday, is_belated) ==
    LET tracking_data == load_delivery_tracking(f, today)
        sm    == tracking_data.sent_messages
        inner == Get(sm, birthday, EmptyDict)
        rec   == NewRecord(inner, user_name, birthday, is_belated, today)
    IN  Put(tracking_data, "sent_messages", Put(sm, birthday, Put(inner, user_name, rec)))

mark_message_sent(f, today, user_name, birthday, is_belated) ==
    save_delivery_tracking(MarkedData(f, today, user_name, birthday, is_belated))

is_message_sent(f, today, user_name, birthday) ==
    LET sm == load_delivery_tracking(f, today).sent_messages
    IN  /\ birthday \in DOMAIN sm
        /\ user_name \in DOMAIN sm[birthday]
        /\ Get(sm[birthday][user_name], "sent", FALSE)

(***************************************************************************)
(* Occurrence Resolver                                                     *)
(***************************************************************************)
\* a user without a birthday matches every date
_is_birthday_match_nobirthday(birthday, check_date) ==
    IF birthday = <<>> THEN TRUE ELSE birthday = DATE_FORMAT(check_date)

_is_birthday_match(birthday, check_date) ==
    IF birthday = <<>> THEN FALSE ELSE birthday = DATE_FORMAT(check_date)

_create_pending_user_notbelated(user, days_ago) ==
    Put(Put(user, "is_belated", FALSE), "days_late", days_ago)

_create_pending_user(user, days_ago) ==
    Put(Put(user, "is_belated", days_ago > 0), "days_late", days_ago)

\* range(RETRY_DAYS + 1): the number of days get_pending_birthdays looks back
LoopDays_short == RETRY_DAYS

LoopDays == RETRY_DAYS + 1

\* the name get_pending_birthdays looks a user up by
LookupName(user) == Get(user, "name", DEFAULT_UNKNOWN_NAME)

Birthday(user) == Get(user, "birthday", <<>>)

\* is_message_sent is called for user i on the iteration days_ago
MatchesDay(users, i, days_ago, today) ==
    _is_birthday_match(Birthday(users[i]), MinusDays(today, days_ago))

\* the users of one iteration appended last first
PendingOfDay_reversed(users, days_ago, f, today) ==
    LET all == [i \in 1..Len(users) |-> <<i, days_ago>>]
        Test(p) == /\ MatchesDay(users, p[1], days_ago, today)
                   /\ ~is_message_sent(f, today, LookupName(users[p[1]]),
                                       Birthday(users[p[1]]))
        sel == SelectSeq(all, Test)
    IN  [j \in 1..Len(sel) |-> sel[Len(sel) + 1 - j]]

PendingOfDay_nocheck(users, days_ago, f, today) ==
    LET all == [i \in 1..Len(users) |-> <<i, days_ago>>]
        Test(p) == MatchesDay(users, p[1], days_ago, today)
    IN  SelectSeq(all, Test)

\* the <<i, days_ago>> of the users appended on the iteration days_ago
PendingOfDay(users, days_ago, f, today) ==
    LET all == [i \in 1..Len(users) |-> <<i, days_ago>>]
        Test(p) == /\ MatchesDay(users, p[1], days_ago, today)
                   /\ ~is_message_sent(f, today, LookupName(users[p[1]]),
                                       Birthday(users[p[1]]))
    IN  SelectSeq(all, Test)

RECURSIVE PendingFrom(_, _, _, _)
PendingFrom(users, days_ago, f, today) ==
    IF days_ago >= LoopDays THEN <<>>
    ELSE PendingOfDay(users, days_ago, f, today)
         \o PendingFrom(users, days_ago + 1, f, today)

\* the <<i, days_ago>> pairs of get_pending_birthdays, in append order
PendingPairs(users, f, today) ==
    IF users = <<>> THEN <<>> ELSE PendingFrom(users, 0, f, today)

\* get_pending_birthdays raises: is_message_sent is reached with a ledger
\* that has no "sent_messages"
get_pending_raises(users, f, today) ==
    /\ TrackingRaises(f, today)
    /\ \E i \in 1..Len(users) : \E days_ago \in 0..(LoopDays - 1) :
          MatchesDay(users, i, days_ago, today)

get_pending_birthdays(users, f, today) ==
    LET pairs == PendingPairs(users, f, today)
    IN  [j \in 1..Len(pairs) |-> _create_pending_user(users[pairs[j][1]], pairs[j][2])]

(***************************************************************************)
(* Delivery Engine                                                         *)
(***************************************************************************)
\* a fixed chat when nothing resolves
_get_chat_id_for_user_fallback(user, config_default_chat, env_default_chat) ==
    LET user_chat_id == Get(user, "chat_id", 0)
    IN  IF user_chat_id # 0 THEN user_chat_id
        ELSE IF config_default_chat # 0 THEN config_default_chat
        ELSE IF env_default_chat # 0 THEN env_default_chat
        ELSE 1

\* the environment's CHAT_ID before the configuration's default_chat_id
_get_chat_id_for_user_envfirst(user, config_default_chat, env_default_chat) ==
    LET user_chat_id == Get(user, "chat_id", 0)
    IN  IF user_chat_id # 0 THEN user_chat_id
        ELSE IF env_default_chat # 0 THEN env_default_chat
        ELSE config_default_chat

_get_chat_id_for_user(user, config_default_chat, env_default_chat) ==
    LET user_chat_id == Get(user, "chat_id", 0)
    IN  IF user_chat_id # 0 THEN user_chat_id
        ELSE IF config_default_chat # 0 THEN config_default_chat
        ELSE env_default_chat

\* the photo is sent and the Markdown text after it as well
_send_telegram_message_both(image_exists, photo_ok, md_ok, plain_ok) ==
    LET first == IF image_exists THEN <<"photo">> ELSE <<>>
        ok1   == IF image_exists THEN <<photo_ok>> ELSE <<>>
    IN  IF md_ok
        THEN [calls |-> first \o <<"markdown">>, oks |-> ok1 \o <<TRUE>>, ok |-> TRUE]
        ELSE [calls |-> first \o <<"markdown", "plain">>,
              oks |-> ok1 \o <<FALSE, plain_ok>>, ok |-> plain_ok]

\* _send_telegram_message: the transport calls made, and whether it returns
\* (ok) or raises, given which transport calls succeed
_send_telegram_message(image_exists, photo_ok, md_ok, plain_ok) ==
    LET first == IF image_exists THEN <<"photo">> ELSE <<>>
    IN  IF image_exists /\ photo_ok
        THEN [calls |-> first, oks |-> <<TRUE>>, ok |-> TRUE]
        ELSE LET ok1 == IF image_exists THEN <<FALSE>> ELSE <<>>
             IN  IF md_ok
                 THEN [calls |-> first \o <<"markdown">>, oks |-> ok1 \o <<TRUE>>,
                       ok |-> TRUE]
                 ELSE [calls |-> first \o <<"markdown", "plain">>,
                       oks |-> ok1 \o <<FALSE, plain_ok>>, ok |-> plain_ok]

\* the try/except Exception around the body of _send_birthday_message_to_user
ExceptionEscapes == FALSE

ExceptionCaught == TRUE

\* the failed attempt is recorded: sent false, attempts raised
FileAfterFailure_attempt(f, today, user_name, birthday) ==
    LET data == MarkedData(f, today, user_name, birthday, FALSE)
        sm   == data.sent_messages
        rec  == [sm[birthday][user_name] EXCEPT !.sent = FALSE]
    IN  save_delivery_tracking(
            Put(data, "sent_messages",
                Put(sm, birthday, Put(sm[birthday], user_name, rec))))

\* the except branch of _send_birthday_message_to_user only logs: the file
\* is as it was
FileAfterFailure(f, today, user_name, birthday) == f

\* load_delivery_tracking only reads delivery_tracking.json: the fresh dict of
\* a new year is returned, not written
FileAfterLoad_saved(f, today) ==
    save_delivery_tracking(load_delivery_tracking(f, today))

FileAfterLoad(f, today) == f

\* get_pending_birthdays reaches is_message_sent (line 399)
LoadsTracking(users, today) ==
    \E i \in 1..Len(users), days_ago \in 0..(LoopDays - 1) :
        MatchesDay(users, i, days_ago, today)

(***************************************************************************)
(* The environment (.env) and birthday_time of users_config.json           *)
(***************************************************************************)
\* which variables are set; CHAT_ID_numeric: CHAT_ID is unset or int() takes it
DefaultEnv ==
    [TELEGRAM_BOT_TOKEN |-> TRUE, GIGACHAT_CREDENTIALS |-> TRUE,
     CHAT_ID_numeric |-> TRUE, KANDINSKY_KEYS |-> TRUE]

Env(d) == Get(d, "env", DefaultEnv)

\* the three raise ValueError of _load_environment_variables
_load_environment_variables_raises(d) ==
    \/ ~Env(d).TELEGRAM_BOT_TOKEN
    \/ ~Env(d).GIGACHAT_CREDENTIALS
    \/ ~Env(d).CHAT_ID_numeric

DEFAULT_BIRTHDAY_TIME == "09:00"

\* the "HH:MM" strings of the deployments; Job.at raises on anything else
DailyTimes == {"09:00", "18:30"}

\* schedule.every().day.at(birthday_time) raises (line 704, outside any try)
at_raises(d) == Get(d, "birthday_time", DEFAULT_BIRTHDAY_TIME) \notin DailyTimes

(***************************************************************************)
(* How generate_birthday_image can end                                     *)
(***************************************************************************)
\* KandinskyClient.generate_birthday_image: every return and the except
KandinskyOutcomes ==
    {"api_unavailable", "no_pipeline", "submit_failed", "timeout", "bad_status",
     "failed", "no_files", "exhausted", "save_failed", "saved", "raised"}

\* BirthdayBot.generate_birthday_image: no client, or the client's outcome,
\* or an exception in the try
ImageOutcomes(d) ==
    IF ~Env(d).KANDINSKY_KEYS THEN {"client_absent"}
    ELSE KandinskyOutcomes \cup {"wrapper_raised"}

\* the try/except Exception of BirthdayBot.generate_birthday_image
ImageExceptionEscapes == FALSE

ImageExceptionCaught == TRUE

ImageRaises(o) == o = "wrapper_raised" /\ ~ImageExceptionCaught

(***************************************************************************)
(* Deployments: a start date, users_config.json (users, default_chat_id)   *)
(* and the CHAT_ID of the environment                                      *)
(***************************************************************************)
Date(y, m, d) == [y |-> y, m |-> m, d |-> d]

Deploy(start, users, default_chat_id, env_chat_id) ==
    [start |-> start, users |-> users, default_chat_id |-> default_chat_id,
     env_chat_id |-> env_chat_id]

OneUser == << [name |-> "A", birthday |-> <<3, 0, 1, 2>>, chat_id |-> 1] >>

Deployments ==
    { \* two recipients, distinct names, across the end of the year
      Deploy(Date(2024, 12, 30),
             << [name |-> "A", birthday |-> <<3, 0, 1, 2>>, chat_id |-> 1],
                [name |-> "B", birthday |-> <<3, 1, 1, 2>>, chat_id |-> 2] >>, 0, 0),
      \* two recipients sharing name and birthday
      Deploy(Date(2024, 12, 30),
             << [name |-> "A", birthday |-> <<3, 1, 1, 2>>, chat_id |-> 1],
                [name |-> "A", birthday |-> <<3, 1, 1, 2>>, chat_id |-> 2] >>, 0, 0),
      \* a recipient with no name field
      Deploy(Date(2024, 12, 30),
             << [birthday |-> <<3, 0, 1, 2>>, chat_id |-> 1] >>, 0, 0),
      \* belated at start, no birthday, aged out at start; config default chat
      Deploy(Date(2024, 12, 30),
             << [name |-> "A", birthday |-> <<2, 8, 1, 2>>],
                [name |-> "B", chat_id |-> 2],
                [name |-> "C", birthday |-> <<2, 7, 1, 2>>, chat_id |-> 3] >>, 100, 0),
      \* a recipient with no destination before one with a destination, and
      \* between them in the list one whose birthday is a day earlier
      Deploy(Date(2025, 2, 27),
             << [name |-> "A", birthday |-> <<2, 8, 0, 2>>],
                [name |-> "C", birthday |-> <<2, 7, 0, 2>>, chat_id |-> 3],
                [name |-> "B", birthday |-> <<2, 8, 0, 2>>, chat_id |-> 2] >>, 0, 0),
      \* 29 February in a year that has none; the environment's default chat
      Deploy(Date(2025, 2, 27),
             << [name |-> "A", birthday |-> <<2, 9, 0, 2>>, chat_id |-> 1],
                [name |-> "B", birthday |-> <<0, 1, 0, 3>>] >>, 0, 200),
      \* no users
      Deploy(Date(2025, 2, 27), << >>, 0, 200),
      \* .env without TELEGRAM_BOT_TOKEN, without GIGACHAT_CREDENTIALS, with a
      \* CHAT_ID that is not a number
      Put(Deploy(Date(2024, 12, 30), OneUser, 0, 0), "env",
          [DefaultEnv EXCEPT !.TELEGRAM_BOT_TOKEN = FALSE]),
      Put(Deploy(Date(2024, 12, 30), OneUser, 0, 0), "env",
          [DefaultEnv EXCEPT !.GIGACHAT_CREDENTIALS = FALSE]),
      Put(Deploy(Date(2024, 12, 30), OneUser, 0, 0), "env",
          [DefaultEnv EXCEPT !.CHAT_ID_numeric = FALSE]),
      \* .env without the Kandinsky keys
      Put(Deploy(Date(2024, 12, 30), OneUser, 0, 0), "env",
          [DefaultEnv EXCEPT !.KANDINSKY_KEYS = FALSE]),
      \* birthday_time that is no time of day
      Put(Deploy(Date(2024, 12, 30), OneUser, 0, 0), "birthday_time", "morning"),
      \* birthday_time set
      Put(Deploy(Date(2024, 12, 30), OneUser, 0, 0), "birthday_time", "18:30") }

users == deployment.users

\* load_config()[2]
config_default_chat == Get(deployment, "default_chat_id", 0)

\* self.default_chat_id: int(os.getenv("CHAT_ID")), None without CHAT_ID; 0 is
\* None
default_chat_id == Get(deployment, "env_chat_id", 0)

(***************************************************************************)
(* State machine                                                           *)
(***************************************************************************)
NoDate == Date(0, 0, 0)

Idle == /\ pending = <<>> /\ pendingUid = <<>> /\ idx = 0
        /\ image = FALSE /\ text = "none" /\ outcomes = <<>> /\ calls = <<>>
        /\ callOk = <<>>
        /\ raised = FALSE
        /\ life = "new" /\ resolvedOn = NoDate /\ imageOutcome = "none"
        /\ chat_id = 0

NoAnswer == [code |-> 0]

\* the KandinskyClient is not generating
KandinskyOff ==
    /\ kpc = "off" /\ _api_available = "None" /\ retries = 0 /\ clock = 0
    /\ polls = 0 /\ answer = NoAnswer /\ submits = 0 /\ payload = "none"
    /\ kresult = "none" /\ jobs = 0

Init ==
    /\ deployment \in Deployments
    /\ now = deployment.start
    /\ elapsed = 0
    /\ sched = FALSE
    /\ file = Absent
    /\ pc = "down"
    /\ Idle
    /\ delivered = EmptyDict
    /\ failed = {}
    /\ faults = 0
    /\ KandinskyOff

\* send_birthday_messages is inside its for loop
InLoop == pc \in {"user", "send", "mark", "sleep"}

\* the recipient the loop of send_birthday_messages is at
user == pending[idx]

\* the date of the occurrence the recipient is pending for
Occurrence == <<pendingUid[idx], MinusDays(resolvedOn, user.days_late)>>

\* the name _send_birthday_message_to_user sends and marks by
SendName(u) == Get(u, "name", DEFAULT_USER_NAME)

\* main: BirthdayBot() raises, or the check at start follows
Start ==
    /\ pc \in {"down", "exited"}
    /\ pc' = IF _load_environment_variables_raises(deployment) THEN "exited"
             ELSE "resolve"
    /\ sched' \in BOOLEAN
    /\ life' = "new"
    /\ UNCHANGED <<now, elapsed, deployment, file, pending, pendingUid, idx, image,
                   text, outcomes, calls, callOk, raised, delivered, failed, faults,
                   resolvedOn, imageOutcome,
                   chat_id>>
    /\ UNCHANGED kandinsky

\* start_scheduler up to the while loop: load_config, schedule...at(birthday_time)
StartScheduler ==
    /\ pc = "idle"
    /\ life = "ticked"
    /\ IF at_raises(deployment)
       THEN pc' = "exited" /\ life' = life
       ELSE pc' = pc /\ life' = "scheduled"
    /\ UNCHANGED <<now, elapsed, sched, deployment, file, pending, pendingUid, idx,
                   image, text, outcomes, calls, callOk, raised, delivered, failed, faults,
                   resolvedOn, imageOutcome,
                   chat_id>>
    /\ UNCHANGED kandinsky

\* start_scheduler: the daily job at birthday_time
ScheduledTick ==
    /\ pc = "idle"
    /\ life = "scheduled"
    /\ ~sched
    /\ pc' = "resolve"
    /\ sched' = TRUE
    /\ UNCHANGED <<now, elapsed, deployment, file, pending, pendingUid, idx, image,
                   text, outcomes, calls, callOk, raised, delivered, failed, faults,
                   life, resolvedOn, imageOutcome,
                   chat_id>>
    /\ UNCHANGED kandinsky

\* midnight
AdvanceDay ==
    /\ pc \in {"down", "exited"} \/ (pc = "idle" /\ life = "scheduled" /\ sched)
    /\ elapsed < MaxDays
    /\ now' = NextDay(now)
    /\ elapsed' = elapsed + 1
    /\ sched' = FALSE
    /\ UNCHANGED <<deployment, file, pc, pending, pendingUid, idx, image, text,
                   outcomes, calls, callOk, raised, delivered, failed, faults,
                   life, resolvedOn, imageOutcome,
                   chat_id>>
    /\ UNCHANGED kandinsky

\* run_birthday_check / send_birthday_messages up to the for loop
Resolve ==
    /\ pc = "resolve"
    /\ image' = FALSE /\ text' = "none" /\ outcomes' = <<>> /\ calls' = <<>>
    /\ callOk' = <<>>
    /\ imageOutcome' = "none"
    /\ chat_id' = 0
    /\ life' = IF life = "new" THEN "ticked" ELSE life
    /\ resolvedOn' = now
    /\ file' = IF LoadsTracking(users, now) THEN FileAfterLoad(file, now) ELSE file
    /\ IF get_pending_raises(users, file, now)
       THEN /\ raised' = TRUE
            /\ pending' = <<>> /\ pendingUid' = <<>> /\ idx' = 0
            /\ pc' = "idle"
       ELSE /\ raised' = FALSE
            /\ pending' = get_pending_birthdays(users, file, now)
            /\ pendingUid' = [j \in 1..Len(PendingPairs(users, file, now)) |->
                                 PendingPairs(users, file, now)[j][1]]
            /\ idx' = IF pending' = <<>> THEN 0 ELSE 1
            /\ pc' = IF pending' = <<>> THEN "idle" ELSE "user"
    /\ UNCHANGED <<now, elapsed, sched, deployment, delivered, failed, faults>>
    /\ UNCHANGED kandinsky

\* _send_birthday_message_to_user returns (how), the for loop goes on
NextRecipient(how) ==
    /\ outcomes' = Append(outcomes, how)
    /\ image' = FALSE
    /\ text' = "none"
    /\ imageOutcome' = "none"
    /\ chat_id' = 0
    /\ IF idx < Len(pending)
       THEN idx' = idx + 1 /\ pc' = "user" /\ raised' = raised
       ELSE idx' = idx /\ pc' = "idle" /\ raised' = raised

\* an exception inside _send_birthday_message_to_user
Except(how) ==
    IF ExceptionCaught
    THEN NextRecipient(how)
    ELSE /\ outcomes' = Append(outcomes, how)
         /\ image' = FALSE /\ text' = "none" /\ idx' = idx
         /\ imageOutcome' = "none"
         /\ chat_id' = 0
         /\ raised' = TRUE
         /\ pc' = "idle"

\* lines 533-549: chat id, image, text
Prepare ==
    /\ pc = "user"
    /\ IF _get_chat_id_for_user(user, config_default_chat, default_chat_id) = 0
       THEN NextRecipient("no_chat")
       ELSE \E o \in ImageOutcomes(deployment) :
               IF ImageRaises(o)
               THEN Except("image_raised")
               ELSE /\ imageOutcome' = o
                    /\ chat_id' = _get_chat_id_for_user(user, config_default_chat,
                                                     default_chat_id)
                    /\ image' = (o = "saved")
                    /\ text' \in {"gigachat", "default"}
                    /\ pc' = "send"
                    /\ UNCHANGED <<idx, outcomes, raised>>
    /\ UNCHANGED <<now, elapsed, sched, deployment, file, pending, pendingUid, calls,
                   callOk, delivered, failed, faults, life, resolvedOn>>
    /\ UNCHANGED kandinsky

\* line 551: _send_telegram_message
Send ==
    /\ pc = "send"
    /\ \E photo_ok, md_ok, plain_ok \in BOOLEAN :
          LET r == _send_telegram_message(image, photo_ok, md_ok, plain_ok)
          IN  /\ calls' = r.calls
              /\ callOk' = r.oks
              /\ IF r.ok
                 THEN /\ delivered' = Put(delivered, Occurrence,
                                          Get(delivered, Occurrence, 0) + 1)
                      /\ pc' = "mark"
                      /\ UNCHANGED <<idx, image, text, outcomes, raised, failed,
                                     imageOutcome, chat_id>>
                 ELSE /\ failed' = failed \cup {Occurrence}
                      /\ Except("send_failed")
                      /\ UNCHANGED delivered
              /\ file' = IF r.ok THEN file
                         ELSE FileAfterFailure(file, now, SendName(user),
                                               Birthday(user))
    /\ UNCHANGED <<now, elapsed, sched, deployment, pending, pendingUid, faults,
                   life, resolvedOn>>
    /\ UNCHANGED kandinsky

\* line 554: mark_message_sent
Mark ==
    /\ pc = "mark"
    /\ IF TrackingRaises(file, now)
       THEN Except("mark_raised") /\ UNCHANGED file
       ELSE /\ file' = mark_message_sent(file, now, SendName(user), Birthday(user),
                                         Get(user, "is_belated", FALSE))
            /\ pc' = "sleep"
            /\ UNCHANGED <<idx, image, text, outcomes, raised, imageOutcome,
                           chat_id>>
    /\ UNCHANGED <<now, elapsed, sched, deployment, pending, pendingUid, calls,
                   callOk, delivered, failed, faults, life, resolvedOn>>
    /\ UNCHANGED kandinsky

\* line 565: asyncio.sleep(MESSAGE_DELAY)
Sleep ==
    /\ pc = "sleep"
    /\ NextRecipient("sent")
    /\ UNCHANGED <<now, elapsed, sched, deployment, file, pending, pendingUid, calls,
                   callOk, delivered, failed, faults, life, resolvedOn>>
    /\ UNCHANGED kandinsky

Next ==
    \/ Start \/ StartScheduler \/ ScheduledTick \/ AdvanceDay
    \/ Resolve \/ Prepare \/ Send \/ Mark \/ Sleep

Spec == Init /\ [][Next]_vars

(***************************************************************************)
(* Faults: the process is killed, or write_text raises inside              *)
(* save_delivery_tracking (caught and logged there, lines 293-294).        *)
(* write_text opens the file for writing, which truncates it, and then     *)
(* writes: a write that stops in between leaves text json.loads rejects.   *)
(***************************************************************************)
Volatile ==
    /\ pending' = <<>> /\ pendingUid' = <<>> /\ idx' = 0
    /\ image' = FALSE /\ text' = "none" /\ outcomes' = <<>> /\ calls' = <<>>
    /\ callOk' = <<>>
    /\ raised' = FALSE
    /\ life' = "new" /\ resolvedOn' = NoDate /\ imageOutcome' = "none"
    /\ chat_id' = 0

\* the process is killed anywhere outside write_text
Crash ==
    /\ pc \notin {"down", "exited"}
    /\ faults < MaxFaults
    /\ faults' = faults + 1
    /\ pc' = "down"
    /\ Volatile
    /\ UNCHANGED <<now, elapsed, sched, deployment, file, delivered, failed>>
    /\ UNCHANGED kandinsky

\* the process is killed inside write_text (lines 289-291)
CrashDuringSave ==
    /\ pc = "mark"
    /\ ~TrackingRaises(file, now)
    /\ faults < MaxFaults
    /\ faults' = faults + 1
    /\ file' = Unparseable
    /\ pc' = "down"
    /\ Volatile
    /\ UNCHANGED <<now, elapsed, sched, deployment, delivered, failed>>
    /\ UNCHANGED kandinsky

\* write_text raises: before the file is opened, or after it is truncated
SaveFails ==
    /\ pc = "mark"
    /\ ~TrackingRaises(file, now)
    /\ faults < MaxFaults
    /\ faults' = faults + 1
    /\ file' \in {file, Unparseable}
    /\ pc' = "sleep"
    /\ UNCHANGED <<now, elapsed, sched, deployment, pending, pendingUid, idx, image,
                   text, outcomes, calls, callOk, raised, delivered, failed,
                   life, resolvedOn, imageOutcome,
                   chat_id>>
    /\ UNCHANGED kandinsky

NextFaults == Next \/ Crash \/ CrashDuringSave \/ SaveFails

SpecFaults == Init /\ [][NextFaults]_vars

(***************************************************************************)
(* One recipient whose birthday is the day of the start, with every        *)
(* combination of a chat_id of the user, a default_chat_id of the          *)
(* configuration and a CHAT_ID of the environment: not there, 0, or a      *)
(* chat.                                                                   *)
(***************************************************************************)
ChatUsers ==
    { [name |-> "A", birthday |-> <<3, 0, 1, 2>>] @@ c :
        c \in {EmptyDict, "chat_id" :> 0, "chat_id" :> 7, "chat_id" :> -1001} }

ChatDeployments ==
    { [start |-> Date(2024, 12, 30), users |-> <<u>>] @@ c @@ e :
        u \in ChatUsers,
        c \in {EmptyDict, "default_chat_id" :> 0, "default_chat_id" :> 8},
        e \in {EmptyDict, "env_chat_id" :> 0, "env_chat_id" :> 9} }

InitChat ==
    /\ deployment \in ChatDeployments
    /\ now = deployment.start
    /\ elapsed = 0
    /\ sched = FALSE
    /\ file = Absent
    /\ pc = "down"
    /\ Idle
    /\ delivered = EmptyDict
    /\ failed = {}
    /\ faults = 0
    /\ KandinskyOff

SpecChat == InitChat /\ [][Next]_vars

(***************************************************************************)
(* Midnight passes while send_birthday_messages is in its loop:            *)
(* current_date of get_pending_birthdays was read before it, the           *)
(* datetime.now() of mark_message_sent and load_delivery_tracking is read  *)
(* after it.                                                               *)
(***************************************************************************)
Midnight ==
    /\ InLoop
    /\ elapsed < MaxDays
    /\ now' = NextDay(now)
    /\ elapsed' = elapsed + 1
    /\ sched' = FALSE
    /\ UNCHANGED <<deployment, file, pc, pending, pendingUid, idx, image, text,
                   outcomes, calls, callOk, raised, delivered, failed, faults,
                   life, resolvedOn, imageOutcome,
                   chat_id>>
    /\ UNCHANGED kandinsky

NextMidnight == Next \/ Midnight

SpecMidnight == Init /\ [][NextMidnight]_vars

(***************************************************************************)
(* Any content of delivery_tracking.json at the start                      *)
(***************************************************************************)
ARecord(today) ==
    [birthday |-> <<3, 0, 1, 2>>, sent |-> TRUE, sent_date |-> SentDateFormat(today),
     is_belated |-> FALSE, attempts |-> 1]

LedgerFiles(today) ==
    { Absent, Unparseable, NonObjectFile,
      JsonFile(EmptyDict),
      JsonFile([sent_messages |-> EmptyDict]),
      JsonFile([year |-> today.y]),
      JsonFile([year |-> today.y - 1]),
      JsonFile([year |-> today.y - 1,
                sent_messages |-> (<<3, 0, 1, 2>> :> ("A" :> ARecord(today)))]),
      JsonFile([year |-> today.y, sent_messages |-> EmptyDict]),
      JsonFile([year |-> today.y,
                sent_messages |-> (<<3, 0, 1, 2>> :> ("A" :> ARecord(today)))]) }

InitAnyLedger ==
    /\ deployment \in Deployments
    /\ now = deployment.start
    /\ elapsed = 0
    /\ sched = FALSE
    /\ file \in LedgerFiles(now)
    /\ pc = "down"
    /\ Idle
    /\ delivered = EmptyDict
    /\ failed = {}
    /\ faults = 0
    /\ KandinskyOff

SpecAnyLedger == InitAnyLedger /\ [][Next]_vars

(***************************************************************************)
(* KandinskyClient.generate_birthday_image on its own: availability,       *)
(* pipeline, submission, the polling loop, the saving of the image.        *)
(* clock is time.time() - start_time in whole seconds; a status call takes *)
(* up to the 30 seconds of its ClientTimeout.                              *)
(***************************************************************************)
MaxJobs == 2

KANDINSKY_GENERATE_TIMEOUT == 300

KANDINSKY_CHECK_TIMEOUT == 10

KANDINSKY_MAX_RETRIES == 30

\* seconds a status call can take
StatusSeconds == {0, 1, 30}

\* answers of GET pipeline/status/{uuid}; code 0 stands for an exception
\* raised by the request (connection error, timeout, invalid JSON)
StatusAnswers ==
    { [code |-> 200, status |-> "DONE", files |-> <<"iVBOR">>],
      [code |-> 200, status |-> "DONE", files |-> <<"R0lGOD", "iVBOR">>],
      [code |-> 200, status |-> "DONE", files |-> <<>>],
      [code |-> 200, status |-> "FAIL"],
      [code |-> 200, status |-> "INITIAL"],
      [code |-> 200, status |-> "PROCESSING"],
      [code |-> 200, status |-> "QUEUED"],
      [code |-> 200],
      [code |-> 500],
      [code |-> 0] }

InProgress(a) == a.code = 200 /\ Get(a, "status", "None") \in {"INITIAL", "PROCESSING"}

DoneWithFiles(a) ==
    a.code = 200 /\ Get(a, "status", "None") = "DONE" /\ Get(a, "files", <<>>) # <<>>

\* the last file instead of the first
_check_generation_status_lastfile(a) ==
    IF DoneWithFiles(a) THEN a.files[Len(a.files)]
    ELSE IF InProgress(a) THEN "PROCESSING"
    ELSE "None"

\* FAIL taken for a job still in progress
_check_generation_status_failwaits(a) ==
    IF DoneWithFiles(a) THEN a.files[1]
    ELSE IF InProgress(a) \/ (a.code = 200 /\ Get(a, "status", "None") = "FAIL")
         THEN "PROCESSING"
    ELSE "None"

\* the return value of _check_generation_status; "None" is None
_check_generation_status(a) ==
    IF a.code = 0 THEN "None"
    ELSE IF a.code = 200
         THEN LET status == Get(a, "status", "None")
              IN  IF status = "DONE"
                  THEN LET files == Get(a, "files", <<>>)
                       IN  IF files # <<>> THEN files[1] ELSE "None"
                  ELSE IF status = "FAIL" THEN "None"
                  ELSE IF status \in {"INITIAL", "PROCESSING"} THEN "PROCESSING"
                  ELSE "None"
         ELSE "None"

\* why the loop returned None after the answer a
NoneOutcome(a) ==
    IF a.code = 200 /\ Get(a, "status", "None") = "FAIL" THEN "failed"
    ELSE IF a.code = 200 /\ Get(a, "status", "None") = "DONE" THEN "no_files"
    ELSE "bad_status"

\* generate_birthday_image returns
Finish(how) == kpc' = "off" /\ kresult' = how

\* generate_birthday_image is called
Generate ==
    /\ kpc = "off"
    /\ jobs < MaxJobs
    /\ jobs' = jobs + 1
    /\ kpc' = "check"
    /\ retries' = 0 /\ clock' = 0 /\ polls' = 0 /\ answer' = NoAnswer
    /\ submits' = 0 /\ payload' = "none" /\ kresult' = "none"
    /\ UNCHANGED _api_available
    /\ UNCHANGED bot

\* the probe is made on every call, whatever the cached value
CheckAvailability_reprobe ==
    /\ kpc = "check"
    /\ \E probe \in {"True", "False"} :
          /\ _api_available' = probe
          /\ IF _api_available' = "True"
             THEN kpc' = "models" /\ UNCHANGED kresult
             ELSE Finish("api_unavailable")
    /\ UNCHANGED <<retries, clock, polls, answer, submits, payload, jobs>>
    /\ UNCHANGED bot

\* _check_api_availability: the cached value, or a probe that sets it
CheckAvailability ==
    /\ kpc = "check"
    /\ \E probe \in {"True", "False"} :
          /\ _api_available' = IF _api_available # "None" THEN _api_available
                               ELSE probe
          /\ IF _api_available' = "True"
             THEN kpc' = "models" /\ UNCHANGED kresult
             ELSE Finish("api_unavailable")
    /\ UNCHANGED <<retries, clock, polls, answer, submits, payload, jobs>>
    /\ UNCHANGED bot

\* _get_available_models inside the session
GetModels ==
    /\ kpc = "models"
    /\ \E pipeline_id \in BOOLEAN :
          IF pipeline_id
          THEN kpc' = "submit" /\ UNCHANGED <<kresult, _api_available>>
          ELSE _api_available' = "False" /\ Finish("no_pipeline")
    /\ UNCHANGED <<retries, clock, polls, answer, submits, payload, jobs>>
    /\ UNCHANGED bot

\* answers of POST pipeline/run; code 0 stands for an exception raised by
\* the request
SubmitAnswers ==
    { [code |-> 201, uuid |-> "u1"],
      [code |-> 200, uuid |-> "u1"],
      [code |-> 201],
      [code |-> 204, uuid |-> "u1"],
      [code |-> 500],
      [code |-> 0] }

\* the return value of _generate_image_request; "None" is None
_generate_image_request(r) ==
    IF r.code \in {200, 201} THEN Get(r, "uuid", "None") ELSE "None"

\* a failed submission is made a second time
Submit_again ==
    /\ kpc = "submit"
    /\ submits' = submits + 1
    /\ \E r \in SubmitAnswers :
          IF _generate_image_request(r) # "None"
          THEN kpc' = "loop" /\ UNCHANGED kresult
          ELSE IF submits = 0 THEN UNCHANGED <<kpc, kresult>>
          ELSE Finish("submit_failed")
    /\ retries' = 0 /\ clock' = 0
    /\ UNCHANGED <<_api_available, polls, answer, payload, jobs>>
    /\ UNCHANGED bot

\* _generate_image_request, then start_time = time.time(), retries = 0
Submit ==
    /\ kpc = "submit"
    /\ submits' = submits + 1
    /\ \E r \in SubmitAnswers :
          IF _generate_image_request(r) # "None"
          THEN kpc' = "loop" /\ UNCHANGED kresult
          ELSE Finish("submit_failed")
    /\ retries' = 0 /\ clock' = 0
    /\ UNCHANGED <<_api_available, polls, answer, payload, jobs>>
    /\ UNCHANGED bot

\* the while condition without the check of the elapsed time
LoopHead_nobudget ==
    /\ kpc = "loop"
    /\ IF retries < KANDINSKY_MAX_RETRIES
       THEN kpc' = "status" /\ UNCHANGED kresult
       ELSE Finish("exhausted")
    /\ UNCHANGED <<_api_available, retries, clock, polls, answer, submits, payload,
                   jobs>>
    /\ UNCHANGED bot

\* the while condition and the timeout check (lines 409-412, 436-439)
LoopHead ==
    /\ kpc = "loop"
    /\ IF retries < KANDINSKY_MAX_RETRIES
       THEN IF clock > KANDINSKY_GENERATE_TIMEOUT
            THEN Finish("timeout")
            ELSE kpc' = "status" /\ UNCHANGED kresult
       ELSE Finish("exhausted")
    /\ UNCHANGED <<_api_available, retries, clock, polls, answer, submits, payload,
                   jobs>>
    /\ UNCHANGED bot

\* result = await self._check_generation_status(session, uuid) and the
\* branch on it (lines 414-419, 424)
CheckStatus ==
    /\ kpc = "status"
    /\ \E a \in StatusAnswers, seconds \in StatusSeconds :
          /\ answer' = a
          /\ polls' = polls + 1
          /\ clock' = clock + seconds
          /\ LET result == _check_generation_status(a)
             IN  IF result = "None"
                 THEN Finish(NoneOutcome(a)) /\ UNCHANGED payload
                 ELSE IF result = "PROCESSING"
                 THEN kpc' = "wait" /\ UNCHANGED <<kresult, payload>>
                 ELSE kpc' = "save" /\ payload' = result /\ UNCHANGED kresult
    /\ UNCHANGED <<_api_available, retries, submits, jobs>>
    /\ UNCHANGED bot

\* the sleep without the increment
Wait_noincrement ==
    /\ kpc = "wait"
    /\ clock' = clock + KANDINSKY_CHECK_TIMEOUT
    /\ kpc' = "loop"
    /\ UNCHANGED <<_api_available, retries, polls, answer, submits, payload, kresult,
                   jobs>>
    /\ UNCHANGED bot

\* asyncio.sleep(KANDINSKY_CHECK_TIMEOUT); retries += 1; continue
Wait ==
    /\ kpc = "wait"
    /\ clock' = clock + KANDINSKY_CHECK_TIMEOUT
    /\ retries' = retries + 1
    /\ kpc' = "loop"
    /\ UNCHANGED <<_api_available, polls, answer, submits, payload, kresult, jobs>>
    /\ UNCHANGED bot

\* return await self._save_image(result, safe_filename)
SaveImage ==
    /\ kpc = "save"
    /\ \E written \in BOOLEAN :
          Finish(IF written THEN "saved" ELSE "save_failed")
    /\ UNCHANGED <<_api_available, retries, clock, polls, answer, submits, payload,
                   jobs>>
    /\ UNCHANGED bot

\* an exception outside the helpers (prompt file, session): the except of
\* generate_birthday_image (lines 441-443)
Raise ==
    /\ kpc \in {"check", "models"}
    /\ Finish("raised")
    /\ UNCHANGED <<_api_available, retries, clock, polls, answer, submits, payload,
                   jobs>>
    /\ UNCHANGED bot

InitKandinsky ==
    /\ deployment = Deploy(Date(2024, 12, 30), OneUser, 0, 0)
    /\ now = deployment.start
    /\ elapsed = 0
    /\ sched = FALSE
    /\ file = Absent
    /\ pc = "down"
    /\ Idle
    /\ delivered = EmptyDict
    /\ failed = {}
    /\ faults = 0
    /\ KandinskyOff

NextKandinsky ==
    \/ Generate \/ CheckAvailability \/ GetModels \/ Submit \/ LoopHead
    \/ CheckStatus \/ Wait \/ SaveImage \/ Raise

SpecKandinsky == InitKandinsky /\ [][NextKandinsky]_vars

\* every await of generate_birthday_image returns or raises
SpecKandinskyLive == SpecKandinsky /\ WF_vars(NextKandinsky)

(***************************************************************************)
(* Vocabulary of the properties                                            *)
(***************************************************************************)
Range(q) == {q[j] : j \in 1..Len(q)}

RECURSIVE DayOfYear(_, _, _)
\* the ordinal of the day d of month m in year y
DayOfYear(y, m, d) == IF m = 1 THEN d ELSE DaysInMonth(y, m - 1) + DayOfYear(y, m - 1, d)

DaysInYear(y) == IF IsLeap(y) THEN 366 ELSE 365

\* days from date a to date b, a in the year of b or the year before
DaysBetween(a, b) ==
    IF a.y = b.y THEN DayOfYear(b.y, b.m, b.d) - DayOfYear(a.y, a.m, a.d)
    ELSE DayOfYear(b.y, b.m, b.d) + DaysInYear(a.y) - DayOfYear(a.y, a.m, a.d)

\* the birthday string names a day of the year y
HasOccurrence(birthday, y) ==
    /\ Len(birthday) = 4
    /\ 10 * birthday[3] + birthday[4] \in 1..12
    /\ 10 * birthday[1] + birthday[2] \in
           1..DaysInMonth(y, 10 * birthday[3] + birthday[4])

OccurrenceIn(birthday, y) ==
    Date(y, 10 * birthday[3] + birthday[4], 10 * birthday[1] + birthday[2])

\* the occurrence of the birthday in year y is 0..RETRY_DAYS days before today
InWindowOfYear(birthday, today, y) ==
    /\ HasOccurrence(birthday, y)
    /\ DaysBetween(OccurrenceIn(birthday, y), today) \in 0..RETRY_DAYS

\* the keys <<birthday, name>> with sent = true in the ledger as loaded today
SentKeys(f, today) ==
    LET sm == load_delivery_tracking(f, today).sent_messages
    IN  {k \in UNION {{<<b, n>> : n \in DOMAIN sm[b]} : b \in DOMAIN sm} :
            Get(sm[k[1]][k[2]], "sent", FALSE)}

Attempts(f, today, user_name, birthday) ==
    LET sm == load_delivery_tracking(f, today).sent_messages
    IN  Get(Get(Get(sm, birthday, EmptyDict), user_name, EmptyDict), "attempts", 0)

\* every record of the persisted ledger was written in year y
AllRecordsOfYear(f, y) ==
    f.kind = "json" =>
        \A b \in DOMAIN f.data.sent_messages :
            \A n \in DOMAIN f.data.sent_messages[b] :
                f.data.sent_messages[b][n].sent_date[1] = y


(***************************************************************************)
(* C1 (as claimed): over ticks, crashes and restarts, every occurrence     *)
(* (recipient, occurrence date) is dispatched successfully at most once.   *)
(***************************************************************************)
C1_AtMostOneDispatch == \A o \in DOMAIN delivered : delivered[o] <= 1

(***************************************************************************)
(* C2 (as claimed): once the ledger holds sent = true for the key          *)
(* (birthday, name), no dispatch for that key succeeds: when a dispatch    *)
(* has just returned, the ledger does not already hold its key.            *)
(***************************************************************************)
C2_NoDispatchOnceSent ==
    pc = "mark" => ~is_message_sent(file, now, SendName(user), Birthday(user))

(***************************************************************************)
(* C3: a dispatch that raises leaves the ledger as it was; an occurrence   *)
(* whose dispatch has failed is returned again by get_pending_birthdays on *)
(* every later tick at most RETRY_DAYS days after the occurrence date, as  *)
(* long as its key is not recorded as sent; on a tick more than RETRY_DAYS *)
(* days after it, it is not returned, and nothing is dispatched or marked  *)
(* for an occurrence older than RETRY_DAYS days.                           *)
(***************************************************************************)
C3_FailureKeepsLedger == failed' # failed => file' = file

C3_RetriedInWindow ==
    (pc = "resolve" /\ ~raised') =>
        \A o \in failed :
            LET u == users[o[1]]
            IN  /\ ( /\ DaysBetween(o[2], now) <= RETRY_DAYS
                     /\ ~is_message_sent(file, now, LookupName(u), Birthday(u)) )
                       => o[1] \in Range(pendingUid')
                /\ DaysBetween(o[2], now) > RETRY_DAYS
                       => o[1] \notin Range(pendingUid')

C3_NothingPastWindow ==
    pc' \in {"send", "mark", "sleep"} =>
        DaysBetween(MinusDays(now', pending'[idx'].days_late), now') <= RETRY_DAYS

C3_RetryUntilWindowEnds ==
    [][C3_FailureKeepsLedger /\ C3_RetriedInWindow /\ C3_NothingPastWindow]_vars

\* a failed occurrence is being processed again, two days late
C3_Witness ==
    /\ pc = "user"
    /\ Occurrence \in failed
    /\ user.days_late = RETRY_DAYS

(***************************************************************************)
(* C4 (amended): get_pending_birthdays returns a recipient if and only if  *)
(* the recipient's latest occurrence, in the current year or, in the first *)
(* RETRY_DAYS days of January, in the year before, is 0..RETRY_DAYS days   *)
(* before the tick date and the ledger as loaded for the current year has  *)
(* no sent = true record under (birthday, name).                           *)
(***************************************************************************)
C4_Expected(i, InWindow(_)) ==
    /\ InWindow(Birthday(users[i]))
    /\ ~is_message_sent(file, now, LookupName(users[i]), Birthday(users[i]))

C4_InLookback(birthday) ==
    \E y \in {now.y - 1, now.y} : InWindowOfYear(birthday, now, y)

C4_InThisYear(birthday) == InWindowOfYear(birthday, now, now.y)

C4_PendingIffInLookback ==
    [][(pc = "resolve" /\ ~raised') =>
          \A i \in 1..Len(users) :
              i \in Range(pendingUid') <=> C4_Expected(i, C4_InLookback)]_vars

\* (as claimed): the occurrence date is the one of the current year
C4_PendingIffInThisYear ==
    [][(pc = "resolve" /\ ~raised') =>
          \A i \in 1..Len(users) :
              i \in Range(pendingUid') <=> C4_Expected(i, C4_InThisYear)]_vars

\* a birthday RETRY_DAYS days ago is pending, one RETRY_DAYS + 1 days ago is not
C4_Witness ==
    /\ pc = "user"
    /\ user.days_late = RETRY_DAYS
    /\ \E i \in 1..Len(users) :
          /\ HasOccurrence(Birthday(users[i]), now.y)
          /\ DaysBetween(OccurrenceIn(Birthday(users[i]), now.y), now) = RETRY_DAYS + 1
          /\ i \notin Range(pendingUid)

(***************************************************************************)
(* C5: within one calendar year, over ticks, mark_message_sent calls and   *)
(* ledger loads, a key with sent = true keeps is_message_sent true, and    *)
(* the attempts of its record never decrease.                              *)
(***************************************************************************)
C5_StickyWithinYear ==
    [][now'.y = now.y =>
          \A k \in SentKeys(file, now) :
              /\ is_message_sent(file', now', k[2], k[1])
              /\ Attempts(file', now', k[2], k[1]) >= Attempts(file, now, k[2], k[1])]_vars

\* a second key has been marked while the first one is still recorded
C5_Witness == Cardinality(SentKeys(file, now)) >= 2

(***************************************************************************)
(* C6: within one tick, whatever fails while a pending recipient is        *)
(* processed, every recipient after it in the pending list is processed    *)
(* too (dispatched to, when it has a destination), and no exception leaves *)
(* _send_birthday_message_to_user.                                         *)
(***************************************************************************)
C6_FailureIsolated ==
    /\ ~raised
    /\ InLoop => Len(outcomes) = idx - 1
    /\ pc = "idle" => Len(outcomes) = Len(pending)
    \* a processed recipient was dispatched to unless it has no destination
    /\ \A j \in 1..Len(outcomes) :
          outcomes[j] = "no_chat" <=>
              _get_chat_id_for_user(pending[j], config_default_chat,
                                    deployment.env_chat_id) = 0

\* the dispatch of the first recipient raised, the second one was dispatched
C6_Witness ==
    /\ pc = "idle"
    /\ Len(outcomes) = 2
    /\ outcomes[1] = "send_failed"
    /\ outcomes[2] = "sent"

(***************************************************************************)
(* C7 (as claimed): with a ledger file that is absent or corrupt           *)
(* (unparseable, or JSON without the year / sent_messages structure), the  *)
(* load gives a fresh empty ledger of the current year and the tick is not *)
(* blocked: is_message_sent and mark_message_sent do not raise.            *)
(***************************************************************************)
AbsentOrCorrupt(f) ==
    \/ f.kind \in {"absent", "unparseable"}
    \/ ~f.isObject
    \/ "year" \notin DOMAIN f.data
    \/ "sent_messages" \notin DOMAIN f.data

C7_CorruptLedgerFailsOpen ==
    AbsentOrCorrupt(file) =>
        /\ ~raised
        /\ (pc = "idle" /\ pending # <<>>) => "mark_raised" \notin Range(outcomes)

(***************************************************************************)
(* C8: when the year of the persisted ledger is not the current year,      *)
(* load_delivery_tracking returns the empty ledger of the current year,    *)
(* and what mark_message_sent then persists is a ledger of the current     *)
(* year whose records were all written in the current year.                *)
(***************************************************************************)
StaleYear(f, today) ==
    f.kind = "json" /\ f.isObject /\ Get(f.data, "year", 0) # today.y

C8_LoadResetsStaleYear ==
    StaleYear(file, now) =>
        load_delivery_tracking(file, now) = _create_empty_tracking_data(now)

C8_MarkDropsStaleYear ==
    (pc = "mark" /\ pc' = "sleep") =>
        /\ file'.data.year = now.y
        /\ AllRecordsOfYear(file', now.y)

C8_NoCrossYearCarryOver ==
    [][C8_LoadResetsStaleYear /\ C8_MarkDropsStaleYear]_vars

\* a record written last year is gone from the ledger mark_message_sent wrote this year
C8_Witness ==
    /\ \E o \in DOMAIN delivered :
          <<Birthday(users[o[1]]), SendName(users[o[1]])>> \notin SentKeys(file, now)
    /\ file.kind = "json"
    /\ file.data.year = now.y
    /\ file.data.sent_messages # EmptyDict

(***************************************************************************)
(* C9 (as claimed): a crash during save_delivery_tracking leaves either    *)
(* the complete previous ledger or the complete new one for the next load. *)
(***************************************************************************)
C9_SaveAtomicUnderCrash ==
    [][(pc = "mark" /\ pc' = "down") =>
          load_delivery_tracking(file', now') \in
              { load_delivery_tracking(file, now),
                MarkedData(file, now, SendName(user), Birthday(user),
                           Get(user, "is_belated", FALSE)) }]_vars

(***************************************************************************)
(* C10: every call of mark_message_sent leaves sent = true under its key   *)
(* and raises the attempts of that key by exactly one, so two calls on a   *)
(* new key give attempts 1 and then 2.                                     *)
(***************************************************************************)
C10_MarkIncrementsAttempts ==
    [][(pc = "mark" /\ pc' = "sleep") =>
          LET n == SendName(user)
              b == Birthday(user)
          IN  /\ is_message_sent(file', now, n, b)
              /\ Attempts(file', now, n, b) = Attempts(file, now, n, b) + 1]_vars

\* the same key has been marked twice
C10_Witness ==
    \E k \in SentKeys(file, now) : Attempts(file, now, k[2], k[1]) = 2

(***************************************************************************)
(* C11: get_pending_birthdays is read-only.  A step that resolves the      *)
(* pending list leaves delivery_tracking.json and the recipient list of    *)
(* users_config.json as they were (the pending entries are copies), and    *)
(* when it runs again on the same day with no mark_message_sent since the  *)
(* previous call, it returns the same sequence as the previous call.       *)
(***************************************************************************)
C11_NoMarkSince == resolvedOn = now /\ "sent" \notin Range(outcomes)

C11_ResolverReadOnly ==
    [][pc = "resolve" =>
          /\ file' = file
          /\ deployment' = deployment
          /\ \A j \in 1..Len(pending') :
                 /\ "is_belated" \in DOMAIN pending'[j]
                 /\ "is_belated" \notin DOMAIN users[pendingUid'[j]]
          /\ C11_NoMarkSince => pending' = pending]_vars

\* a second call on the same day, the first returned entries, none was marked
C11_Witness ==
    /\ pc = "resolve"
    /\ C11_NoMarkSince
    /\ pending # <<>>
    /\ file = Absent

(***************************************************************************)
(* C12: outage recovery.  When the process was not running on the day of   *)
(* an occurrence and is started at most RETRY_DAYS days later, the check   *)
(* at process start returns the recipient with is_belated = TRUE and the   *)
(* number of days late; and the step that follows a successful dispatch of *)
(* a belated entry in that check records the occurrence as sent, in the    *)
(* same check, before start_scheduler has scheduled the daily job.         *)
(***************************************************************************)
\* the check at the start of the first process of the deployment
C12_StartAfterOutage == pc = "resolve" /\ life = "new" /\ resolvedOn = NoDate

C12_FoundBelated ==
    C12_StartAfterOutage =>
        \A i \in 1..Len(users), d \in 1..RETRY_DAYS :
            MatchesDay(users, i, d, now) =>
                \E j \in 1..Len(pending') :
                    /\ pendingUid'[j] = i
                    /\ pending'[j].is_belated = TRUE
                    /\ pending'[j].days_late = d

\* the belated entry was dispatched in the check at start
C12_BelatedDispatched ==
    /\ pc = "mark" /\ life = "ticked"
    /\ user.is_belated

C12_MarkedAtStart ==
    /\ pc = "sleep" /\ life = "ticked"
    /\ user.is_belated
    /\ is_message_sent(file, now, SendName(user), Birthday(user))

C12_OutageRecovery ==
    [][/\ C12_FoundBelated
       /\ C12_BelatedDispatched => C12_MarkedAtStart']_vars

\* the occurrence fell on a day the process was down
C12_Witness ==
    /\ C12_MarkedAtStart
    /\ Get(delivered, Occurrence, 0) = 1
    /\ DaysBetween(Occurrence[2], now) \in 1..elapsed

(***************************************************************************)
(* C13: the polling loop of KandinskyClient.generate_birthday_image.       *)
(* Whatever the status calls answer, a job makes at most                   *)
(* KANDINSKY_MAX_RETRIES status calls and generate_birthday_image returns. *)
(* When every status call answers INITIAL or PROCESSING the job returns no *)
(* image: either exhausted, after exactly KANDINSKY_MAX_RETRIES status     *)
(* calls, or timed out, after fewer status calls, when the time since the  *)
(* submission is above KANDINSKY_GENERATE_TIMEOUT at the head of the loop. *)
(***************************************************************************)
\* the job has returned and each of its status calls answered in-progress
C13_EndedInProgress ==
    /\ kpc = "off"
    /\ submits = 1
    /\ kresult \notin {"none", "submit_failed"}
    /\ polls = retries

C13_PollBound == polls <= KANDINSKY_MAX_RETRIES

C13_ExhaustedOrTimedOut ==
    C13_EndedInProgress =>
        \/ kresult = "exhausted" /\ polls = KANDINSKY_MAX_RETRIES
        \/ /\ kresult = "timeout"
           /\ polls < KANDINSKY_MAX_RETRIES
           /\ clock > KANDINSKY_GENERATE_TIMEOUT

C13_Terminates == (kpc # "off") ~> (kpc = "off")

C13_RetryBound ==
    /\ [](C13_PollBound /\ C13_ExhaustedOrTimedOut)
    /\ C13_Terminates

\* the statement without the timeout: always in-progress ends exhausted
\* after exactly KANDINSKY_MAX_RETRIES status calls
C13_ExhaustedAfterMax ==
    C13_EndedInProgress =>
        kresult = "exhausted" /\ polls = KANDINSKY_MAX_RETRIES

\* exhausted while the time is not above the timeout
C13_Witness ==
    /\ C13_EndedInProgress
    /\ kresult = "exhausted"
    /\ polls = KANDINSKY_MAX_RETRIES
    /\ clock <= KANDINSKY_GENERATE_TIMEOUT

(***************************************************************************)
(* C14: for every k with 0 <= k < KANDINSKY_MAX_RETRIES, when the          *)
(* submission succeeded, k status calls answered in-progress and the next  *)
(* one, reached before the timeout, answers DONE with files, the loop ends *)
(* with files[0] as the image data after exactly k + 1 status calls, hands *)
(* it to _save_image and makes no status call afterwards.                  *)
(***************************************************************************)
C14_DoneAfterK ==
    [][/\ (kpc = "status" /\ DoneWithFiles(answer')) =>
              /\ retries \in 0..(KANDINSKY_MAX_RETRIES - 1)
              /\ polls = retries
              /\ polls' = retries + 1
              /\ kpc' = "save"
              /\ payload' = answer'.files[1]
       /\ kpc = "save" =>
              /\ polls' = polls
              /\ payload' = payload
              /\ kpc' = "off"
              /\ kresult' \in {"saved", "save_failed"}
       /\ (kpc = "off" /\ kresult \in {"saved", "save_failed"}) =>
              polls' = 0 \/ polls' = polls]_vars

\* DONE with two files after KANDINSKY_MAX_RETRIES - 1 in-progress answers
C14_Witness ==
    /\ kpc = "save"
    /\ retries = KANDINSKY_MAX_RETRIES - 1
    /\ polls = KANDINSKY_MAX_RETRIES
    /\ Len(answer.files) = 2
    /\ payload = answer.files[1]

(***************************************************************************)
(* C15: image generation is best-effort.  For a recipient with a           *)
(* destination, however generate_birthday_image ends (no client, API       *)
(* unavailable, no pipeline, submission refused, FAIL, bad status, timeout,*)
(* exhausted, save error, exception, or an image), the text is rendered    *)
(* and the dispatch is attempted next, in the same tick, with the photo    *)
(* call only when an image was saved; and when the dispatch succeeds the   *)
(* occurrence is recorded as sent.                                         *)
(***************************************************************************)
C15_ImageBestEffort ==
    [][/\ (/\ pc = "user"
           /\ _get_chat_id_for_user(user, config_default_chat,
                                    deployment.env_chat_id) # 0) =>
              /\ pc' = "send"
              /\ imageOutcome' \in ImageOutcomes(deployment)
              /\ image' = (imageOutcome' = "saved")
              /\ text' \in {"gigachat", "default"}
              /\ idx' = idx
       /\ pc = "send" =>
              /\ calls' # <<>>
              /\ ("photo" \in Range(calls')) = image
              /\ pc' = "mark" => Get(delivered', Occurrence, 0) > 0
       /\ pc = "mark" =>
              /\ pc' = "sleep"
              /\ imageOutcome' = imageOutcome
              /\ is_message_sent(file', now, SendName(user), Birthday(user))]_vars

\* an exception in the try of generate_birthday_image, then sent and marked
C15_Witness ==
    /\ pc = "sleep"
    /\ imageOutcome = "wrapper_raised"
    /\ ~image
    /\ Get(delivered, Occurrence, 0) > 0
    /\ is_message_sent(file, now, SendName(user), Birthday(user))

(***************************************************************************)
(* C16: the process ends on an error only when the environment is          *)
(* misconfigured (TELEGRAM_BOT_TOKEN or GIGACHAT_CREDENTIALS missing,      *)
(* CHAT_ID not a number), and then it has run no tick and dispatched       *)
(* nothing; a process that got past the construction of the bot is never   *)
(* ended by an error.                                                      *)
(***************************************************************************)
C16_OnlyEnvErrorTerminates ==
    pc = "exited" =>
        /\ _load_environment_variables_raises(deployment)
        /\ life = "new"
        /\ delivered = EmptyDict

(***************************************************************************)
(* C17: ledger round trip.  For every ledger file mark_message_sent        *)
(* writes, loading it in the same year returns the data that was saved,    *)
(* and load, save, load returns data equal to the first load (and the      *)
(* second save writes the file that was there).                            *)
(***************************************************************************)
C17_RoundTrip ==
    [][(pc = "mark" /\ pc' = "sleep") =>
          LET first  == load_delivery_tracking(file', now)
              second == load_delivery_tracking(save_delivery_tracking(first), now)
          IN  /\ first = MarkedData(file, now, SendName(user), Birthday(user),
                                    Get(user, "is_belated", FALSE))
              /\ second = first
              /\ save_delivery_tracking(first) = file']_vars

\* a ledger with records under two birthdays, just written
C17_Witness ==
    /\ pc = "sleep"
    /\ file.kind = "json"
    /\ file.data.year = now.y
    /\ Cardinality(DOMAIN file.data.sent_messages) >= 2
    /\ load_delivery_tracking(save_delivery_tracking(
           load_delivery_tracking(file, now)), now) = file.data

(***************************************************************************)
(* C18: key consistency.  For every pending entry, with or without a name  *)
(* field, the name mark_message_sent is given after a successful dispatch  *)
(* is the name get_pending_birthdays gave is_message_sent, so that after   *)
(* the mark the resolver's key reads as sent.                              *)
(***************************************************************************)
C18_SameKey ==
    pc = "sleep" =>
        /\ SendName(user) = LookupName(user)
        /\ is_message_sent(file, now, LookupName(user), Birthday(user))

(***************************************************************************)
(* C19: the retry window across the year boundary.  An occurrence of the   *)
(* last RETRY_DAYS days of December that was dispatched in December, and   *)
(* that the December ledger records as sent, is not dispatched again by a  *)
(* tick of January.                                                        *)
(***************************************************************************)
\* the file as it is holds a sent record of year y for the key
RecordedIn(f, y, user_name, birthday) ==
    /\ f.kind = "json"
    /\ f.isObject
    /\ Get(f.data, "year", 0) = y
    /\ "sent_messages" \in DOMAIN f.data
    /\ birthday \in DOMAIN f.data.sent_messages
    /\ user_name \in DOMAIN f.data.sent_messages[birthday]
    /\ Get(f.data.sent_messages[birthday][user_name], "sent", FALSE)

C19_NoRepeatAfterNewYear ==
    (/\ pc = "mark"
     /\ Occurrence[2].y < now.y
     /\ RecordedIn(file, Occurrence[2].y, LookupName(user), Birthday(user))) =>
        Get(delivered, Occurrence, 0) = 1

(***************************************************************************)
(* C20: a status call that answers with an unknown status string, with a   *)
(* response other than 200, or that raises, is taken for in-progress: the  *)
(* loop sleeps and polls again instead of returning.                       *)
(***************************************************************************)
Unexpected(a) ==
    \/ a.code # 200
    \/ Get(a, "status", "None") \notin {"DONE", "FAIL", "INITIAL", "PROCESSING"}

C20_UnexpectedIsInProgress ==
    [][(kpc = "status" /\ Unexpected(answer')) =>
          /\ kpc' = "wait"
          /\ kresult' = "none"]_vars

(***************************************************************************)
(* C21: at the start of a loop iteration, when the time since submission   *)
(* is above KANDINSKY_GENERATE_TIMEOUT, generate_birthday_image returns    *)
(* the timed-out outcome without another status call; no status call is    *)
(* issued at an elapsed time above KANDINSKY_GENERATE_TIMEOUT.             *)
(***************************************************************************)
C21_OverBudget ==
    kpc = "loop" /\ retries < KANDINSKY_MAX_RETRIES
                 /\ clock > KANDINSKY_GENERATE_TIMEOUT

C21_WallClockBudget ==
    [][/\ C21_OverBudget =>
            /\ kpc' = "off" /\ kresult' = "timeout"
            /\ polls' = polls /\ payload' = "none"
       /\ polls' = polls + 1 => clock <= KANDINSKY_GENERATE_TIMEOUT]_vars

\* a job timed out after status calls that answered in-progress
C21_Witness ==
    /\ kpc = "off" /\ kresult = "timeout"
    /\ clock > KANDINSKY_GENERATE_TIMEOUT
    /\ polls > 0 /\ polls < KANDINSKY_MAX_RETRIES
    /\ InProgress(answer)

(***************************************************************************)
(* C22: when a status call answers FAIL, generate_birthday_image returns   *)
(* the failed outcome at once: no sleep, no further status call, and       *)
(* nothing is handed to _save_image.                                       *)
(***************************************************************************)
C22_Failed(a) == a.code = 200 /\ Get(a, "status", "None") = "FAIL"

C22_FailReturnsAtOnce ==
    [][kpc = "status" /\ C22_Failed(answer') =>
          /\ kpc' = "off" /\ kresult' = "failed"
          /\ retries' = retries /\ polls' = polls + 1
          /\ payload' = "none"]_vars

\* FAIL was the answer of the third status call of a job
C22_Witness ==
    /\ kpc = "off" /\ kresult = "failed" /\ C22_Failed(answer)
    /\ polls = 3 /\ retries = 2 /\ payload = "none"

(***************************************************************************)
(* C23: when the submission of the job fails (a response other than 200 or *)
(* 201, no uuid in the response, an exception), generate_birthday_image    *)
(* returns the failed outcome at once: _generate_image_request was called  *)
(* exactly once and no status call is made for the job.                    *)
(***************************************************************************)
C23_SubmitOnce ==
    [][kpc = "submit" =>
          /\ submits' = 1
          /\ \/ kpc' = "loop"
             \/ /\ kpc' = "off" /\ kresult' = "submit_failed"
                /\ polls' = 0 /\ payload' = "none"]_vars

C23_NoPollAfterFailedSubmit ==
    kresult = "submit_failed" => kpc = "off" /\ submits = 1 /\ polls = 0

C23_SubmitFailure == [](C23_NoPollAfterFailedSubmit) /\ C23_SubmitOnce

\* the submission of the second job failed
C23_Witness ==
    /\ kpc = "off" /\ kresult = "submit_failed" /\ jobs = 2
    /\ submits = 1 /\ polls = 0

(***************************************************************************)
(* C24: a pending recipient for whom no chat resolves (no chat_id of the   *)
(* user, no default_chat_id in the configuration, no CHAT_ID in the        *)
(* environment) is skipped: no image is generated, no text is rendered,    *)
(* no transport call is made, delivery_tracking.json is unchanged, and the *)
(* loop goes on with the next pending recipient.                           *)
(***************************************************************************)
C24_NoDestination ==
    /\ pc = "user"
    /\ Get(user, "chat_id", 0) = 0
    /\ config_default_chat = 0
    /\ deployment.env_chat_id = 0

C24_Skipped ==
    [][C24_NoDestination =>
          /\ outcomes' = Append(outcomes, "no_chat")
          /\ imageOutcome' = "none" /\ image' = FALSE /\ text' = "none"
          /\ calls' = calls /\ delivered' = delivered /\ failed' = failed
          /\ file' = file
          /\ raised' = raised
          /\ IF idx < Len(pending)
             THEN pc' = "user" /\ idx' = idx + 1
             ELSE pc' = "idle"]_vars

\* the recipient after a skipped one is being dispatched
C24_Witness ==
    /\ pc = "send" /\ idx = 2
    /\ outcomes = <<"no_chat">>
    /\ calls = <<>> /\ delivered = EmptyDict

(***************************************************************************)
(* C25: delivery_tracking.json is written only by mark_message_sent, after *)
(* _send_telegram_message returned: a recipient that ends in a dispatch    *)
(* failure, without a chat, or in an exception before the dispatch leaves  *)
(* the file as it was, and no step sets sent back to false or removes a    *)
(* record of the current year.                                             *)
(***************************************************************************)
\* the keys recorded in the file for year y
C25_Records(f, y) ==
    IF f.kind = "json" /\ f.isObject /\ Get(f.data, "year", 0) = y
    THEN LET sm == Get(f.data, "sent_messages", EmptyDict)
         IN  UNION {{<<b, n>> : n \in DOMAIN sm[b]} : b \in DOMAIN sm}
    ELSE {}

C25_Unsuccessful == {"send_failed", "no_chat", "image_raised"}

C25_OnlyMarkWrites ==
    [][/\ file' # file =>
            /\ pc = "mark" /\ pc' = "sleep"
            /\ Get(delivered, Occurrence, 0) > 0
            /\ calls # <<>>
            /\ file' = mark_message_sent(file, now, SendName(user), Birthday(user),
                                         Get(user, "is_belated", FALSE))
       /\ (/\ InLoop
           /\ Len(outcomes') = Len(outcomes) + 1
           /\ outcomes'[Len(outcomes')] \in C25_Unsuccessful) => file' = file
       /\ \A k \in C25_Records(file, now.y) :
            /\ k \in C25_Records(file', now.y)
            /\ file'.data.sent_messages[k[1]][k[2]].sent
            /\ file'.data.sent_messages[k[1]][k[2]].attempts
                   >= file.data.sent_messages[k[1]][k[2]].attempts]_vars

\* a dispatch failed while the file holds a record, and the file is as it was
C25_Witness ==
    /\ InLoop /\ outcomes # <<>>
    /\ outcomes[Len(outcomes)] = "send_failed"
    /\ C25_Records(file, now.y) # {}

(***************************************************************************)
(* C26: within one tick, between the end of a pending recipient (sent,     *)
(* failed or skipped) and the first transport call for the next one, the   *)
(* sleep of MESSAGE_DELAY is taken.  The sleep of line 565 is the step     *)
(* that ends a recipient as "sent"; every other end of a recipient goes    *)
(* to the next one without it.                                             *)
(***************************************************************************)
C26_DelayBeforeNextDispatch ==
    (pc = "send" /\ idx >= 2) => outcomes[idx - 1] = "sent"

(***************************************************************************)
(* C27: _send_telegram_message tries the transport calls in the order      *)
(* photo with caption (only when the image file exists), Markdown text,    *)
(* plain text; a later call is made only if every earlier one failed; at   *)
(* most one call succeeds; and it raises, so that the occurrence is not    *)
(* marked, exactly when the plain-text send failed.                        *)
(***************************************************************************)
C27_Chain == (IF image THEN <<"photo">> ELSE <<>>) \o <<"markdown", "plain">>

C27_FallbackChain ==
    [][pc = "send" =>
          LET n == Len(calls')
          IN  /\ n >= 1 /\ n <= Len(C27_Chain) /\ Len(callOk') = n
              /\ calls' = SubSeq(C27_Chain, 1, n)
              /\ \A j \in 1..(n - 1) : ~callOk'[j]
              /\ n < Len(C27_Chain) => callOk'[n]
              /\ Cardinality({j \in 1..n : callOk'[j]}) <= 1
              /\ (pc' # "mark") <=> (calls'[n] = "plain" /\ ~callOk'[n])
              /\ (pc' # "mark") <=> (outcomes' = Append(outcomes, "send_failed"))
              /\ (pc' # "mark") => file' = file]_vars

\* the photo and the Markdown text failed, the plain text was sent
C27_Witness ==
    /\ pc = "mark"
    /\ calls = <<"photo", "markdown", "plain">>
    /\ callOk = <<FALSE, FALSE, TRUE>>

(***************************************************************************)
(* C28: the list get_pending_birthdays returns is ordered by days_late     *)
(* ascending and, for equal days_late, by the position in the users list;  *)
(* send_birthday_messages takes the recipients one at a time in that       *)
(* order, and a recipient is finished (image, dispatch, mark) before the   *)
(* next one starts.                                                        *)
(***************************************************************************)
C28_Ordered ==
    InLoop =>
        /\ Len(pendingUid) = Len(pending)
        /\ \A j \in 1..Len(pending) :
              pending[j] = _create_pending_user(users[pendingUid[j]],
                                                pending[j].days_late)
        /\ \A j, k \in 1..Len(pending) :
              j < k => \/ pending[j].days_late < pending[k].days_late
                       \/ /\ pending[j].days_late = pending[k].days_late
                          /\ pendingUid[j] < pendingUid[k]

C28_OneAtATime ==
    InLoop => idx \in 1..Len(pending) /\ Len(outcomes) = idx - 1

C28_Sequential ==
    [][InLoop =>
          /\ InLoop' => /\ pending' = pending /\ pendingUid' = pendingUid
                        /\ idx' \in {idx, idx + 1}
                        /\ idx' = idx + 1 =>
                              /\ pc' = "user" /\ Len(outcomes') = idx
                              /\ imageOutcome' = "none" /\ image' = FALSE
          /\ pc' = "idle" => idx = Len(pending) /\ Len(outcomes') = Len(pending)]_vars

C28_OrderedSequential == [](C28_Ordered /\ C28_OneAtATime) /\ C28_Sequential

\* three pending recipients, two of the same day and one of an earlier day,
\* and the loop is at the last one
C28_Witness ==
    /\ InLoop /\ Len(pending) >= 3 /\ idx = Len(pending)
    /\ \E j, k \in 1..Len(pending) :
          /\ j < k /\ pending[j].days_late = pending[k].days_late
    /\ \E j, k \in 1..Len(pending) :
          /\ j < k /\ pending[j].days_late < pending[k].days_late
          /\ pendingUid[j] > pendingUid[k]

(***************************************************************************)
(* C29: every pending entry has is_belated = (days_late > 0) and days_late *)
(* equal to the number of days from the date of the occurrence to the date *)
(* get_pending_birthdays ran on; the record mark_message_sent writes has   *)
(* that is_belated, and its sent_date is the date mark_message_sent runs   *)
(* on.  That date is the date of the tick unless midnight passed between   *)
(* get_pending_birthdays and mark_message_sent.                            *)
(***************************************************************************)
\* the days from the occurrence of the birthday on or before today to today
C29_DaysAgo(birthday, today) ==
    IF /\ HasOccurrence(birthday, today.y)
       /\ DayOfYear(today.y, 10 * birthday[3] + birthday[4],
                    10 * birthday[1] + birthday[2])
              <= DayOfYear(today.y, today.m, today.d)
    THEN DaysBetween(OccurrenceIn(birthday, today.y), today)
    ELSE DaysBetween(OccurrenceIn(birthday, today.y - 1), today)

C29_Flags ==
    InLoop =>
        \A j \in 1..Len(pending) :
            /\ pending[j].days_late = C29_DaysAgo(Birthday(pending[j]), resolvedOn)
            /\ pending[j].is_belated = (pending[j].days_late > 0)

C29_MarkedRecord ==
    file'.data.sent_messages[Birthday(user)][SendName(user)]

C29_RecordOfMark ==
    [][(pc = "mark" /\ pc' = "sleep") =>
          /\ C29_MarkedRecord.is_belated = (C29_DaysAgo(Birthday(user), resolvedOn) > 0)
          /\ C29_MarkedRecord.sent_date = SentDateFormat(now)]_vars

C29_BelatedAndDate == [](C29_Flags) /\ C29_RecordOfMark

\* the statement with the date of the tick
C29_SentDateIsTickDate ==
    [][(pc = "mark" /\ pc' = "sleep") =>
          C29_MarkedRecord.sent_date = SentDateFormat(resolvedOn)]_vars

\* a belated occurrence was marked after midnight had passed in the tick
C29_Witness ==
    /\ pc = "sleep" /\ user.is_belated /\ user.days_late = 2
    /\ now = NextDay(resolvedOn)
    /\ file.data.sent_messages[Birthday(user)][SendName(user)].is_belated
    /\ file.data.sent_messages[Birthday(user)][SendName(user)].sent_date
           = SentDateFormat(now)

(***************************************************************************)
(* C30: get_pending_birthdays does not raise on the users it is given: an  *)
(* empty users list gives an empty result, and a user without a birthday   *)
(* is never in the result and does not change which of the other users     *)
(* are.                                                                    *)
(***************************************************************************)
C30_HasBirthday(u) == Birthday(u) # <<>>

C30_SkipsMissingBirthday ==
    [][pc = "resolve" =>
          /\ ~raised'
          /\ users = <<>> => pending' = <<>> /\ pc' = "idle"
          /\ \A j \in 1..Len(pending') : C30_HasBirthday(users[pendingUid'[j]])
          /\ pending' = get_pending_birthdays(SelectSeq(users, C30_HasBirthday),
                                              file, now)]_vars

\* users with a birthday are pending while one without a birthday is not
C30_Witness ==
    /\ pc = "user" /\ pending # <<>>
    /\ \E i \in 1..Len(users) :
          /\ ~C30_HasBirthday(users[i])
          /\ i \notin Range(pendingUid)
          /\ \E j \in 1..Len(pendingUid) : pendingUid[j] < i

(***************************************************************************)
(* C31: for every combination of the user's chat_id, the configuration's   *)
(* default_chat_id and the environment's CHAT_ID being there or not,       *)
(* _get_chat_id_for_user returns the first of the three, in this order,    *)
(* that is there and is not 0, and None only when none of them is: a value *)
(* of 0 counts as not there.                                               *)
(***************************************************************************)
\* the three sources of the chat, in the order of their priority
C31_Sources ==
    << [present |-> "chat_id" \in DOMAIN user, value |-> Get(user, "chat_id", 0)],
       [present |-> "default_chat_id" \in DOMAIN deployment,
        value |-> Get(deployment, "default_chat_id", 0)],
       [present |-> "env_chat_id" \in DOMAIN deployment,
        value |-> Get(deployment, "env_chat_id", 0)] >>

C31_Usable(j) == C31_Sources[j].present /\ C31_Sources[j].value # 0

C31_Skipped == pc' # "send" /\ chat_id' = 0 /\ outcomes' = Append(outcomes, "no_chat")

C31_Resolution ==
    [][pc = "user" =>
          IF \E j \in 1..3 : C31_Usable(j)
          THEN LET first == CHOOSE j \in 1..3 :
                               /\ C31_Usable(j)
                               /\ \A k \in 1..(j - 1) : ~C31_Usable(k)
               IN  pc' = "send" /\ chat_id' = C31_Sources[first].value
          ELSE C31_Skipped]_vars

\* the statement with "present" as being there, whatever the value
C31_FirstPresent ==
    [][pc = "user" =>
          IF \E j \in 1..3 : C31_Sources[j].present
          THEN LET first == CHOOSE j \in 1..3 :
                               /\ C31_Sources[j].present
                               /\ \A k \in 1..(j - 1) : ~C31_Sources[k].present
               IN  pc' = "send" /\ chat_id' = C31_Sources[first].value
          ELSE C31_Skipped]_vars

\* the user's chat_id is 0, the configuration has no default_chat_id, and the
\* message goes to the environment's CHAT_ID
C31_Witness ==
    /\ pc = "send"
    /\ "chat_id" \in DOMAIN user /\ user.chat_id = 0
    /\ "default_chat_id" \notin DOMAIN deployment
    /\ "env_chat_id" \in DOMAIN deployment
    /\ chat_id = deployment.env_chat_id /\ chat_id # 0

(***************************************************************************)
(* C32: on a delivery_tracking.json that can be read and is of the current *)
(* year, mark_message_sent(name, birthday) changes only the record under   *)
(* birthday and name: the year and the record under every other key are    *)
(* the same before and after, and the file holds at most one record per    *)
(* key.                                                                    *)
(***************************************************************************)
C32_Readable(f, today) ==
    /\ f.kind = "json" /\ f.isObject
    /\ DOMAIN f.data = {"year", "sent_messages"}
    /\ f.data.year = today.y

C32_Keys(f) ==
    UNION {{<<b, n>> : n \in DOMAIN f.data.sent_messages[b]} :
              b \in DOMAIN f.data.sent_messages}

\* no two members of a JSON object have the same key
C32_DistinctKeys(members) ==
    \A i, j \in 1..Len(members) : i # j => members[i][1] # members[j][1]

\* the text mark_message_sent writes in this step
C32_Written ==
    json_dumps(MarkedData(file, now, SendName(user), Birthday(user),
                          Get(user, "is_belated", FALSE)))

C32_OnlyItsKey ==
    [][(pc = "mark" /\ C32_Readable(file, now)) =>
          LET key == <<Birthday(user), SendName(user)>>
              sm  == C32_Written[2][2]
          IN  /\ pc' = "sleep"
              /\ C32_Readable(file', now)
              /\ file'.data.year = file.data.year
              /\ C32_Keys(file') = C32_Keys(file) \cup {key}
              /\ \A k \in C32_Keys(file) \ {key} :
                    file'.data.sent_messages[k[1]][k[2]]
                        = file.data.sent_messages[k[1]][k[2]]
              /\ C32_DistinctKeys(C32_Written)
              /\ C32_DistinctKeys(sm)
              /\ \A i \in 1..Len(sm) : C32_DistinctKeys(sm[i][2])]_vars

\* a key was marked in a file that held a record under another name of the
\* same birthday, and that record is still there
C32_Witness ==
    /\ pc = "sleep" /\ C32_Readable(file, now)
    /\ \E k \in C32_Keys(file) :
          /\ k[1] = Birthday(user) /\ k[2] # SendName(user)
          /\ file.data.sent_messages[k[1]][k[2]].attempts = 1

(***************************************************************************)
(* C33: once _api_available is False (the probe failed, or no pipeline     *)
(* was returned), it stays False for the life of the client, and every     *)
(* later generate_birthday_image returns None without a call of            *)
(* _generate_image_request or _check_generation_status.                    *)
(***************************************************************************)
C33_NoImageOutcomes == {"api_unavailable", "raised"}

C33_StickyUnavailable ==
    [][_api_available = "False" =>
          /\ _api_available' = "False"
          /\ kpc' \in {"off", "check"}
          /\ submits' = 0 /\ polls' = 0 /\ payload' = "none"
          /\ kpc = "check" => kpc' = "off" /\ kresult' \in C33_NoImageOutcomes]_vars

\* the flag set by the first call: after a failed probe, or after no pipeline
\* was returned
C33_SetByFirstCall ==
    [][(_api_available # "False" /\ _api_available' = "False") =>
          /\ kpc' = "off"
          /\ kresult' \in {"api_unavailable", "no_pipeline"}]_vars

C33_Sticky == C33_StickyUnavailable /\ C33_SetByFirstCall

\* the second call is at its availability check with the flag the first call
\* left False
C33_Witness ==
    /\ jobs = 2 /\ kpc = "check" /\ _api_available = "False"
    /\ submits = 0 /\ polls = 0

====
